---- MODULE Spec2Model ----
(***************************************************************************)
(* A model of IDevJSClient (src/lib/idevjsClient.js): the client's token   *)
(* state, its facade operations, the https request each of them issues and *)
(* the handlers _makeRequest registers on that request.                    *)
(*                                                                         *)
(* JavaScript values are tagged records, so that any two of them can be    *)
(* compared.  A JavaScript string that the code builds by concatenation is *)
(* kept as the sequence of its pieces; a response text is the sequence of  *)
(* its JSON lexemes, and a chunk of a response is a run of lexemes.        *)
(***************************************************************************)
EXTENDS Integers, Sequences, FiniteSets, TLC

\* ------------------------------------------------------------------------
\* Bounds of the model
\* ------------------------------------------------------------------------

\* Requests issued on the client in one behaviour.
MaxReq == 2

\* 'data' events delivered for one response.
MaxChunks == 2

\* ------------------------------------------------------------------------
\* JavaScript values
\* ------------------------------------------------------------------------

Undefined == [t |-> "undefined"]

Null == [t |-> "null"]

Bool(b) == [t |-> "boolean", b |-> b]

Num(n) == [t |-> "number", n |-> n]

Str(s) == [t |-> "string", s |-> s]

\* An object is the sequence of its own properties, in insertion order.
Obj(props) == [t |-> "object", f |-> props]

Arr(elems) == [t |-> "array", e |-> elems]

Prop(key, val) == [k |-> key, v |-> val]

\* The value a TypeError leaves where a result was expected.
Throws == [t |-> "throw", name |-> "TypeError"]

\* ToBoolean: the values `!x` and `x || y` treat as false.
Falsy(v) ==
  \/ v.t \in {"undefined", "null"}
  \/ v.t = "boolean" /\ ~v.b
  \/ v.t = "number" /\ v.n = 0
  \/ v.t = "string" /\ "s" \in DOMAIN v /\ v.s = ""

Truthy(v) == ~Falsy(v)

HasOwn(o, key) == o.t = "object" /\ \E i \in 1..Len(o.f) : o.f[i].k = key

\* o.key or o[i]: a TypeError on undefined and null, undefined where the
\* property is missing or the receiver is a primitive.
Get(o, key) ==
  IF o.t \in {"undefined", "null", "throw"} THEN Throws
  ELSE IF HasOwn(o, key)
    THEN o.f[CHOOSE i \in 1..Len(o.f) : o.f[i].k = key].v
    ELSE Undefined

\* a[0]
First(a) ==
  IF a.t \in {"undefined", "null", "throw"} THEN Throws
  ELSE IF a.t = "array" /\ Len(a.e) > 0 THEN a.e[1]
  ELSE Undefined

\* Assignment of a property while an object literal or JSON text is read:
\* a repeated key keeps its place and takes the later value.
Put(props, key, val) ==
  IF \E i \in 1..Len(props) : props[i].k = key
    THEN [i \in 1..Len(props) |->
            IF props[i].k = key THEN Prop(key, val) ELSE props[i]]
    ELSE Append(props, Prop(key, val))

\* ------------------------------------------------------------------------
\* JSON texts
\* ------------------------------------------------------------------------

\* Lexemes of a JSON text.
LB == [x |-> "{"]

RB == [x |-> "}"]

LK == [x |-> "["]

RK == [x |-> "]"]

COLON == [x |-> ":"]

COMMA == [x |-> ","]

TNull == [x |-> "null"]

TFalse == [x |-> "false"]

TTrue == [x |-> "true"]

TNum(n) == [x |-> "number", n |-> n]

TStr(s) == [x |-> "string", s |-> s]

\* Text that is no JSON lexeme at all (the start of an HTML error page).
TJunk == [x |-> "<html>"]

\* body.join(''): the chunks of a response, concatenated.
RECURSIVE Join(_)
Join(chunks) ==
  IF chunks = <<>> THEN <<>> ELSE Head(chunks) \o Join(Tail(chunks))

Failed == [ok |-> FALSE, val |-> Undefined, rest |-> <<>>]

Parsed(v, rest) == [ok |-> TRUE, val |-> v, rest |-> rest]

\* JSON.parse, by recursive descent over the lexemes: ParseValue reads one
\* value from the front of ts and returns it with the lexemes that follow.
RECURSIVE ParseValue(_), ParseMembers(_, _), ParseElements(_, _)
ParseValue(ts) ==
  IF ts = <<>> THEN Failed
  ELSE LET h == Head(ts)
           r == Tail(ts)
       IN CASE h.x = "null" -> Parsed(Null, r)
            [] h.x = "false" -> Parsed(Bool(FALSE), r)
            [] h.x = "true" -> Parsed(Bool(TRUE), r)
            [] h.x = "number" -> Parsed(Num(h.n), r)
            [] h.x = "string" -> Parsed(Str(h.s), r)
            [] h.x = "{" ->
                 IF r # <<>> /\ Head(r) = RB
                   THEN Parsed(Obj(<<>>), Tail(r))
                   ELSE ParseMembers(r, <<>>)
            [] h.x = "[" ->
                 IF r # <<>> /\ Head(r) = RK
                   THEN Parsed(Arr(<<>>), Tail(r))
                   ELSE ParseElements(r, <<>>)
            [] OTHER -> Failed

\* The members of an object after "{" or ",": string ":" value, then "," or "}".
ParseMembers(ts, props) ==
  IF Len(ts) < 2 \/ Head(ts).x # "string" \/ ts[2] # COLON THEN Failed
  ELSE LET m == ParseValue(SubSeq(ts, 3, Len(ts)))
       IN IF ~m.ok \/ m.rest = <<>> THEN Failed
          ELSE LET acc == Put(props, Head(ts).s, m.val)
               IN IF Head(m.rest) = RB THEN Parsed(Obj(acc), Tail(m.rest))
                  ELSE IF Head(m.rest) = COMMA
                    THEN ParseMembers(Tail(m.rest), acc)
                    ELSE Failed

\* The elements of an array after "[" or ",": value, then "," or "]".
ParseElements(ts, elems) ==
  LET m == ParseValue(ts)
  IN IF ~m.ok \/ m.rest = <<>> THEN Failed
     ELSE LET acc == Append(elems, m.val)
          IN IF Head(m.rest) = RK THEN Parsed(Arr(acc), Tail(m.rest))
             ELSE IF Head(m.rest) = COMMA
               THEN ParseElements(Tail(m.rest), acc)
               ELSE Failed

\* JSON.parse(text): the value, or a SyntaxError unless the text is exactly
\* one value.
JSONParse(text) ==
  LET m == ParseValue(text)
  IN IF m.ok /\ m.rest = <<>> THEN [ok |-> TRUE, val |-> m.val]
     ELSE [ok |-> FALSE, val |-> Undefined]

\* JSON.stringify: the lexemes of the text.  A property whose value is
\* undefined is left out; an undefined array element is written as null.
RECURSIVE JSONStringify(_), StringifyProps(_, _), StringifyElems(_, _)
JSONStringify(v) ==
  CASE v.t = "null" -> <<TNull>>
    [] v.t = "boolean" -> IF v.b THEN <<TTrue>> ELSE <<TFalse>>
    [] v.t = "number" -> <<TNum(v.n)>>
    [] v.t = "string" -> <<TStr(v.s)>>
    [] v.t = "array" -> <<LK>> \o StringifyElems(v.e, TRUE) \o <<RK>>
    [] v.t = "object" -> <<LB>> \o StringifyProps(v.f, TRUE) \o <<RB>>
    [] OTHER -> <<>>

StringifyProps(props, first) ==
  IF props = <<>> THEN <<>>
  ELSE IF Head(props).v.t = "undefined" THEN StringifyProps(Tail(props), first)
  ELSE (IF first THEN <<>> ELSE <<COMMA>>)
         \o <<TStr(Head(props).k), COLON>> \o JSONStringify(Head(props).v)
         \o StringifyProps(Tail(props), FALSE)

StringifyElems(elems, first) ==
  IF elems = <<>> THEN <<>>
  ELSE (IF first THEN <<>> ELSE <<COMMA>>)
         \o (IF Head(elems).t = "undefined" THEN <<TNull>>
             ELSE JSONStringify(Head(elems)))
         \o StringifyElems(Tail(elems), FALSE)

\* ------------------------------------------------------------------------
\* Strings built by concatenation
\* ------------------------------------------------------------------------

\* A string kept as the sequence of the pieces it was concatenated from.
Cat(pieces) == [t |-> "string", c |-> pieces]

\* ToString, as `+` and template literals apply it: the pieces of the text.
ToStr(v) ==
  CASE v.t = "string" -> IF "s" \in DOMAIN v THEN <<v.s>> ELSE v.c
    [] v.t = "undefined" -> <<"undefined">>
    [] v.t = "null" -> <<"null">>
    [] v.t = "boolean" -> IF v.b THEN <<"true">> ELSE <<"false">>
    [] v.t = "number" -> <<ToString(v.n)>>
    [] OTHER -> <<"[object Object]">>

\* qs.stringify: key=value pairs in the order of the object's properties; a
\* value that is no string, number or boolean is written as the empty string.
QsStringify(params) ==
  [t |-> "string",
   form |-> [i \in 1..Len(params.f) |->
               [k |-> params.f[i].k,
                v |-> IF params.f[i].v.t \in {"string", "number", "boolean"}
                        THEN ToStr(params.f[i].v) ELSE <<"">>]]]

\* ------------------------------------------------------------------------
\* Program constants
\* ------------------------------------------------------------------------

DEFAULT_ERROR_CODE == -1

DEFAULT_TIMEOUT_MS == 5000

BASE_URI == "api.idevjs.com"

DEFAULT_VERSION == Str("v1")

\* new IDevJSError(message, code)
IDevJSError(message, code) == [t |-> "error", message |-> message, code |-> code]

\* ------------------------------------------------------------------------
\* State
\* ------------------------------------------------------------------------

VARIABLES
  constructed,   \* whether `new IDevJSClient(options)` has returned
  clientOptions, \* this.options
  version,       \* this._version
  clientId,      \* this._clientId
  clientSecret,  \* this._clientSecret
  accessToken,   \* this._accessToken
  reqs,          \* the requests https.request has created, in order of issue
  thrown,        \* what the latest facade call threw; undefined if it returned
  returned       \* what the latest getAuthorizationUrl call returned

vars ==
  <<constructed, clientOptions, version, clientId, clientSecret, accessToken,
    reqs, thrown, returned>>

client == <<constructed, clientOptions, version, clientId, clientSecret>>

Init ==
  /\ constructed = FALSE
  /\ clientOptions = Undefined
  /\ version = Undefined
  /\ clientId = Undefined
  /\ clientSecret = Undefined
  /\ accessToken = Undefined
  /\ reqs = <<>>
  /\ thrown = Undefined
  /\ returned = Undefined

\* ------------------------------------------------------------------------
\* _enforce
\* ------------------------------------------------------------------------

\* The first key of requiredKeys whose value in options is falsy; 0 if none.
FirstMissing(options, requiredKeys) ==
  IF \E i \in 1..Len(requiredKeys) : Falsy(Get(options, requiredKeys[i]))
    THEN CHOOSE i \in 1..Len(requiredKeys) :
           /\ Falsy(Get(options, requiredKeys[i]))
           /\ \A j \in 1..(i - 1) : Truthy(Get(options, requiredKeys[j]))
    ELSE 0

\* Enforce without the check of the required keys.
EnforceOptionsOnly(options, requiredKeys) ==
  IF Falsy(options)
    THEN IDevJSError(Str("Parameters for this call are undefined"),
                     Num(DEFAULT_ERROR_CODE))
  ELSE Undefined

\* What _enforce(options, requiredKeys) throws; undefined if it returns.
Enforce(options, requiredKeys) ==
  IF Falsy(options)
    THEN IDevJSError(Str("Parameters for this call are undefined"),
                     Num(DEFAULT_ERROR_CODE))
  ELSE IF FirstMissing(options, requiredKeys) # 0
    THEN IDevJSError(
           Cat(<<"Missing required parameter \"",
                 requiredKeys[FirstMissing(options, requiredKeys)], "\"">>),
           Num(DEFAULT_ERROR_CODE))
  ELSE Undefined

\* ------------------------------------------------------------------------
\* _makeRequest: the request it creates
\* ------------------------------------------------------------------------

\* options.contentType || 'application/json'
ContentType(options) ==
  IF Truthy(options.contentType) THEN options.contentType
  ELSE Str("application/json")

\* What req.write is given: JSON.stringify(data) for an object, the data
\* itself otherwise; undefined when options.data is falsy and nothing is
\* written.
Written(options) ==
  IF Falsy(options.data) THEN Undefined
  ELSE IF options.data.t \in {"object", "array"}
    THEN [t |-> "string", json |-> JSONStringify(options.data)]
    ELSE options.data

\* MakeRequest sending no token to the token endpoint.
MakeRequestTokenless(options, wrap) ==
  [host |-> BASE_URI,
   port |-> 443,
   method |-> options.method,
   path |-> Cat(<<"/">> \o ToStr(version) \o options.path),
   contentType |-> ContentType(options),
   authorization |-> Cat(<<"Bearer ">> \o
                         (IF wrap = "token" THEN <<"">> ELSE ToStr(accessToken))),
   accept |-> Str("application/json"),
   acceptCharset |-> Str("utf-8"),
   timeoutMs |-> DEFAULT_TIMEOUT_MS,
   written |-> Written(options),
   ended |-> TRUE,
   wrap |-> wrap,
   res |-> FALSE,
   statusCode |-> 0,
   body |-> <<>>,
   resEnded |-> FALSE,
   errored |-> FALSE,
   aborted |-> FALSE,
   uncaught |-> FALSE,
   calls |-> <<>>]

\* The request as _makeRequest leaves it when it returns: created by
\* https.request with both handlers registered, headers and timeout set, the
\* body written and req.end() called.  `wrap` names the callback closure the
\* handlers hold: "token" for the one _acquireAccessToken passes, "plain" for
\* the caller's own.
MakeRequest(options, wrap) ==
  [host |-> BASE_URI,
   port |-> 443,
   method |-> options.method,
   path |-> Cat(<<"/">> \o ToStr(version) \o options.path),
   contentType |-> ContentType(options),
   authorization |-> Cat(<<"Bearer ">> \o ToStr(accessToken)),
   accept |-> Str("application/json"),
   acceptCharset |-> Str("utf-8"),
   timeoutMs |-> DEFAULT_TIMEOUT_MS,
   written |-> Written(options),
   ended |-> TRUE,
   wrap |-> wrap,
   res |-> FALSE,
   statusCode |-> 0,
   body |-> <<>>,
   resEnded |-> FALSE,
   errored |-> FALSE,
   aborted |-> FALSE,
   uncaught |-> FALSE,
   calls |-> <<>>]

\* ------------------------------------------------------------------------
\* Inputs
\* ------------------------------------------------------------------------

\* Options objects passed to the constructor.
ConstructorOptions ==
  { Undefined,
    Obj(<<Prop("clientId", Str("id"))>>),
    Obj(<<Prop("clientSecret", Str("secret"))>>),
    Obj(<<Prop("clientId", Str("id")), Prop("clientSecret", Str("secret"))>>),
    Obj(<<Prop("clientId", Str("id")), Prop("clientSecret", Str("secret")),
          Prop("version", Str("v2"))>>) }

\* Tokens passed to setAccessToken.
Tokens == { Str("s1") }

Codes == { Undefined, Str("c1") }

RedirectUrls == { Undefined, Str("http://cb") }

RefreshTokens == { Undefined, Str("r1") }

\* Options objects passed to getPostForUser.
UserOptions == { Undefined, Obj(<<>>), Obj(<<Prop("userId", Str("u1"))>>) }

\* Options objects passed to createPost.
PostOptions ==
  { Undefined,
    Obj(<<Prop("title", Str("T"))>>),
    Obj(<<Prop("userId", Str("u1")), Prop("title", Str("T")),
          Prop("tags", Arr(<<Str("a")>>))>>) }

\* The fields of a post that createPost sends, in the order it lists them.
PostFields ==
  <<"title", "content", "contentFormat", "tags", "canonicalUrl",
    "publishStatus", "license">>

\* A value for each field of a post.
PostFieldValue(field) ==
  CASE field = "tags" -> Arr(<<Str("a"), Str("b")>>)
    [] field = "contentFormat" -> Str("html")
    [] field = "publishStatus" -> Str("draft")
    [] OTHER -> Str(field)

\* The properties of a post for the fields in `supplied`.
RECURSIVE PostProps(_, _)
PostProps(fields, supplied) ==
  IF fields = <<>> THEN <<>>
  ELSE (IF Head(fields) \in supplied
          THEN <<Prop(Head(fields), PostFieldValue(Head(fields)))>> ELSE <<>>)
         \o PostProps(Tail(fields), supplied)

\* Options objects with a userId passed to createPost: every choice of the
\* fields supplied, and objects whose fields come in another order, are
\* explicitly undefined, null, or falsy.
Posts ==
  { Obj(<<Prop("userId", Str("u1"))>> \o PostProps(PostFields, supplied)) :
      supplied \in SUBSET { PostFields[i] : i \in 1..Len(PostFields) } }
  \cup
  { Obj(<<Prop("license", Str("cc")), Prop("title", Str("T")),
          Prop("userId", Str("u1"))>>),
    Obj(<<Prop("userId", Str("u1")), Prop("title", Undefined),
          Prop("content", Str("C"))>>),
    Obj(<<Prop("userId", Str("u1")), Prop("title", Null),
          Prop("tags", Arr(<<>>))>>),
    Obj(<<Prop("userId", Num(7)), Prop("title", Str("")),
          Prop("content", Num(0)), Prop("license", Bool(FALSE))>>) }

\* Scope lists passed to getAuthorizationUrl.
Scopes == { Undefined, Arr(<<Str("basicProfile"), Str("publishPost")>>) }

\* Messages of the errors the transport reports.
TransportMessages == { Str("connect ECONNREFUSED") }

\* The message of the error an aborted request reports.
AbortMessage == Str("socket hang up")

\* ------------------------------------------------------------------------
\* Facade
\* ------------------------------------------------------------------------

\* new IDevJSClient(options)
Construct(options) ==
  LET opts == IF options = Undefined THEN Obj(<<>>) ELSE options
      err == Enforce(opts, <<"clientId", "clientSecret">>)
  IN /\ ~constructed
     /\ thrown' = err
     /\ UNCHANGED returned
     /\ IF err # Undefined
          THEN UNCHANGED <<client, accessToken, reqs>>
          ELSE /\ constructed' = TRUE
               /\ clientOptions' = opts
               /\ version' = IF Truthy(Get(opts, "version"))
                               THEN Get(opts, "version") ELSE DEFAULT_VERSION
               /\ clientId' = Get(opts, "clientId")
               /\ clientSecret' = Get(opts, "clientSecret")
               /\ accessToken' = Str("")
               /\ UNCHANGED reqs

\* setAccessToken(token)
SetAccessToken(token) ==
  /\ constructed
  /\ accessToken' = token
  /\ thrown' = Undefined
  /\ UNCHANGED <<client, returned, reqs>>

\* requestedScope.join(','): the pieces of the joined text.
RECURSIVE JoinComma(_)
JoinComma(elems) ==
  IF elems = <<>> THEN <<>>
  ELSE IF Len(elems) = 1 THEN ToStr(Head(elems))
  ELSE ToStr(Head(elems)) \o <<",">> \o JoinComma(Tail(elems))

\* getAuthorizationUrl(state, redirectUrl, requestedScope): the URL, as the
\* object url.format is given; a TypeError if requestedScope has no join.
GetAuthorizationUrl(state, redirectUrl, requestedScope) ==
  /\ constructed
  /\ IF requestedScope.t # "array"
       THEN thrown' = Throws /\ UNCHANGED returned
       ELSE /\ thrown' = Undefined
            /\ returned' =
                 [protocol |-> "https",
                  host |-> BASE_URI,
                  pathname |-> "/oauth/authorize",
                  query |-> QsStringify(Obj(<<
                    Prop("client_id", clientId),
                    Prop("scope", Cat(JoinComma(requestedScope.e))),
                    Prop("response_type", Str("code")),
                    Prop("state", state),
                    Prop("redirect_uri", redirectUrl)>>))]
  /\ UNCHANGED <<client, accessToken, reqs>>

\* _acquireAccessToken(params, callback)
AcquireAccessToken(params) ==
  /\ reqs' = Append(reqs,
       MakeRequest([method |-> "POST",
                    path |-> <<"/oauth/tokens">>,
                    contentType |-> Str("application/x-www-form-urlencoded"),
                    data |-> QsStringify(params)], "token"))
  /\ thrown' = Undefined
  /\ UNCHANGED <<client, returned, accessToken>>

\* exchangeAuthorizationCode(code, redirectUrl, callback)
ExchangeAuthorizationCode(code, redirectUrl) ==
  /\ constructed
  /\ AcquireAccessToken(Obj(<<Prop("code", code),
                              Prop("client_id", clientId),
                              Prop("client_secret", clientSecret),
                              Prop("grant_type", Str("authorization_code")),
                              Prop("redirect_uri", redirectUrl)>>))

\* exchangeRefreshToken(refreshToken, callback)
ExchangeRefreshToken(refreshToken) ==
  /\ constructed
  /\ AcquireAccessToken(Obj(<<Prop("refresh_token", refreshToken),
                              Prop("client_id", clientId),
                              Prop("client_secret", clientSecret),
                              Prop("grant_type", Str("refresh_token"))>>))

\* getUser(callback)
GetUser ==
  /\ constructed
  /\ reqs' = Append(reqs,
       MakeRequest([method |-> "GET", path |-> <<"/me">>,
                    contentType |-> Undefined, data |-> Undefined], "plain"))
  /\ thrown' = Undefined
  /\ UNCHANGED <<client, returned, accessToken>>

\* getPostForUser(options, callback)
GetPostForUser(options) ==
  LET err == Enforce(options, <<"userId">>)
  IN /\ constructed
     /\ thrown' = err
     /\ IF err # Undefined THEN UNCHANGED reqs
        ELSE reqs' = Append(reqs,
               MakeRequest([method |-> "GET",
                            path |-> <<"/users/">>
                                      \o ToStr(Get(options, "userId"))
                                      \o <<"/posts">>,
                            contentType |-> Undefined,
                            data |-> Undefined], "plain"))
     /\ UNCHANGED <<client, returned, accessToken>>

\* CreatePost sending canonicalUrl under the key canonical_url.
CreatePostSnakeCase(options) ==
  LET err == Enforce(options, <<"userId">>)
  IN /\ constructed
     /\ thrown' = err
     /\ IF err # Undefined THEN UNCHANGED reqs
        ELSE reqs' = Append(reqs,
               MakeRequest([method |-> "POST",
                            path |-> <<"/users/">>
                                      \o ToStr(Get(options, "userId"))
                                      \o <<"/posts">>,
                            contentType |-> Undefined,
                            data |-> Obj(<<
                              Prop("title", Get(options, "title")),
                              Prop("content", Get(options, "content")),
                              Prop("contentFormat", Get(options, "contentFormat")),
                              Prop("tags", Get(options, "tags")),
                              Prop("canonical_url", Get(options, "canonicalUrl")),
                              Prop("publishStatus", Get(options, "publishStatus")),
                              Prop("license", Get(options, "license"))>>)],
                           "plain"))
     /\ UNCHANGED <<client, returned, accessToken>>

\* createPost(options, callback)
CreatePost(options) ==
  LET err == Enforce(options, <<"userId">>)
  IN /\ constructed
     /\ thrown' = err
     /\ IF err # Undefined THEN UNCHANGED reqs
        ELSE reqs' = Append(reqs,
               MakeRequest([method |-> "POST",
                            path |-> <<"/users/">>
                                      \o ToStr(Get(options, "userId"))
                                      \o <<"/posts">>,
                            contentType |-> Undefined,
                            data |-> Obj(<<
                              Prop("title", Get(options, "title")),
                              Prop("content", Get(options, "content")),
                              Prop("contentFormat", Get(options, "contentFormat")),
                              Prop("tags", Get(options, "tags")),
                              Prop("canonicalUrl", Get(options, "canonicalUrl")),
                              Prop("publishStatus", Get(options, "publishStatus")),
                              Prop("license", Get(options, "license"))>>)],
                           "plain"))
     /\ UNCHANGED <<client, returned, accessToken>>

\* ------------------------------------------------------------------------
\* Handlers of a request
\* ------------------------------------------------------------------------

\* The outcome of a handler: it calls callback(err, data), or a TypeError
\* escapes it before it does.
Calls(err, data) == [threw |-> FALSE, err |-> err, data |-> data]

Escapes == [threw |-> TRUE, err |-> Undefined, data |-> Undefined]

\* payload.data || payload
Payload(payload) ==
  IF Truthy(Get(payload, "data")) THEN Get(payload, "data") ELSE payload

\* OnEnd reading the last element of errors in place of the first.
OnEndLastElement(statusCode, body) ==
  LET parsed == JSONParse(Join(body))
      payload == parsed.val
      statusType == statusCode \div 100
      errors == Get(payload, "errors")
      err == IF errors.t = "array" /\ Len(errors.e) > 0
               THEN errors.e[Len(errors.e)] ELSE First(errors)
  IN IF ~parsed.ok
       THEN Calls(IDevJSError(Str("Failed to parse response"),
                              Num(DEFAULT_ERROR_CODE)), Null)
     ELSE IF statusType = 4 \/ statusType = 5
       THEN IF Get(err, "message") = Throws THEN Escapes
            ELSE Calls(IDevJSError(Get(err, "message"), Get(err, "code")), Null)
     ELSE IF statusType = 2
       THEN IF Get(payload, "data") = Throws THEN Escapes
            ELSE Calls(Null, Payload(payload))
     ELSE Calls(IDevJSError(Str("Unexpected response"),
                            Num(DEFAULT_ERROR_CODE)), Null)

\* OnEnd classifying the status family before it parses the body.
OnEndStatusFirst(statusCode, body) ==
  LET parsed == JSONParse(Join(body))
      payload == parsed.val
      statusType == statusCode \div 100
      err == First(Get(payload, "errors"))
  IN IF statusType \notin {2, 4, 5}
       THEN Calls(IDevJSError(Str("Unexpected response"),
                              Num(DEFAULT_ERROR_CODE)), Null)
     ELSE IF ~parsed.ok
       THEN Calls(IDevJSError(Str("Failed to parse response"),
                              Num(DEFAULT_ERROR_CODE)), Null)
     ELSE IF statusType = 4 \/ statusType = 5
       THEN IF Get(err, "message") = Throws THEN Escapes
            ELSE Calls(IDevJSError(Get(err, "message"), Get(err, "code")), Null)
     ELSE IF Get(payload, "data") = Throws THEN Escapes
     ELSE Calls(Null, Payload(payload))

\* OnEnd reporting a service error under the sentinel code.
OnEndSentinelCode(statusCode, body) ==
  LET parsed == JSONParse(Join(body))
      payload == parsed.val
      statusType == statusCode \div 100
      err == First(Get(payload, "errors"))
  IN IF ~parsed.ok
       THEN Calls(IDevJSError(Str("Failed to parse response"),
                              Num(DEFAULT_ERROR_CODE)), Null)
     ELSE IF statusType = 4 \/ statusType = 5
       THEN IF Get(err, "message") = Throws THEN Escapes
            ELSE Calls(IDevJSError(Get(err, "message"),
                                   Num(DEFAULT_ERROR_CODE)), Null)
     ELSE IF statusType = 2
       THEN IF Get(payload, "data") = Throws THEN Escapes
            ELSE Calls(Null, Payload(payload))
     ELSE Calls(IDevJSError(Str("Unexpected response"),
                            Num(DEFAULT_ERROR_CODE)), Null)

\* OnEnd resolving a 3xx response as it resolves a 2xx one.
OnEndRedirectAsSuccess(statusCode, body) ==
  LET parsed == JSONParse(Join(body))
      payload == parsed.val
      statusType == statusCode \div 100
      err == First(Get(payload, "errors"))
  IN IF ~parsed.ok
       THEN Calls(IDevJSError(Str("Failed to parse response"),
                              Num(DEFAULT_ERROR_CODE)), Null)
     ELSE IF statusType = 4 \/ statusType = 5
       THEN IF Get(err, "message") = Throws THEN Escapes
            ELSE Calls(IDevJSError(Get(err, "message"), Get(err, "code")), Null)
     ELSE IF statusType = 2 \/ statusType = 3
       THEN IF Get(payload, "data") = Throws THEN Escapes
            ELSE Calls(Null, Payload(payload))
     ELSE Calls(IDevJSError(Str("Unexpected response"),
                            Num(DEFAULT_ERROR_CODE)), Null)

\* The res 'end' handler, from the status code and the chunks pushed to body.
OnEnd(statusCode, body) ==
  LET parsed == JSONParse(Join(body))
      payload == parsed.val
      statusType == statusCode \div 100
      err == First(Get(payload, "errors"))
  IN IF ~parsed.ok
       THEN Calls(IDevJSError(Str("Failed to parse response"),
                              Num(DEFAULT_ERROR_CODE)), Null)
     ELSE IF statusType = 4 \/ statusType = 5
       THEN IF Get(err, "message") = Throws THEN Escapes
            ELSE Calls(IDevJSError(Get(err, "message"), Get(err, "code")), Null)
     ELSE IF statusType = 2
       THEN IF Get(payload, "data") = Throws THEN Escapes
            ELSE Calls(Null, Payload(payload))
     ELSE Calls(IDevJSError(Str("Unexpected response"),
                            Num(DEFAULT_ERROR_CODE)), Null)

\* OnError passing on the code of the transport's error, which has none.
OnErrorOwnCode(message) ==
  Calls(IDevJSError(message, Undefined), Null)

\* The req 'error' handler, from the error's message.
OnError(message) ==
  Calls(IDevJSError(message, Num(DEFAULT_ERROR_CODE)), Null)

\* AcquireCallback with a failed exchange clearing the stored token.
AcquireCallbackClears(token, err, data) ==
  IF Falsy(err) THEN Get(data, "access_token") ELSE Str("")

\* AcquireCallback with the token stored only while none is stored yet.
AcquireCallbackFirstWins(token, err, data) ==
  IF Falsy(err) /\ Falsy(token) THEN Get(data, "access_token") ELSE token

\* The closure _acquireAccessToken passes as callback: the stored token it
\* leaves, before it calls the caller's callback.
AcquireCallback(token, err, data) ==
  IF Falsy(err) THEN Get(data, "access_token") ELSE token

\* TokenAfter with every request's callback storing a token.
TokenAfterAnyRequest(r, err, data) ==
  AcquireCallback(accessToken, err, data)

\* The stored token after request r's handler has called callback(err, data).
TokenAfter(r, err, data) ==
  IF r.wrap = "token" THEN AcquireCallback(accessToken, err, data)
  ELSE accessToken

\* Handle with the caller's callback called before the token is stored.
HandleCallbackFirst(i, upd, via, out) ==
  LET tok == IF out.threw THEN Throws ELSE TokenAfter(upd, out.err, out.data)
  IN IF tok = Throws
       THEN /\ reqs' = [reqs EXCEPT ![i] = [upd EXCEPT !.uncaught = TRUE]]
            /\ UNCHANGED accessToken
       ELSE /\ accessToken' = tok
            /\ reqs' = [reqs EXCEPT ![i] =
                 [upd EXCEPT !.calls =
                    Append(@, [via |-> via, err |-> out.err,
                               data |-> out.data, seen |-> accessToken])]]

\* Handle issuing the request again when it resolves with an error.
HandleRetries(i, upd, via, out) ==
  LET tok == IF out.threw THEN Throws ELSE TokenAfter(upd, out.err, out.data)
      done == [upd EXCEPT !.calls =
                 Append(@, [via |-> via, err |-> out.err,
                            data |-> out.data, seen |-> tok])]
  IN IF tok = Throws
       THEN /\ reqs' = [reqs EXCEPT ![i] = [upd EXCEPT !.uncaught = TRUE]]
            /\ UNCHANGED accessToken
       ELSE /\ accessToken' = tok
            /\ reqs' = IF out.err = Null THEN [reqs EXCEPT ![i] = done]
                       ELSE Append([reqs EXCEPT ![i] = done],
                                   [upd EXCEPT !.res = FALSE, !.body = <<>>,
                                               !.resEnded = FALSE,
                                               !.errored = FALSE,
                                               !.aborted = FALSE])

\* Request i's `via` handler ("end" or "error") runs to its outcome `out`,
\* leaving the request as `upd`.  A call of the caller's callback is recorded
\* in calls with the handler it came from and the stored token at that moment.
Handle(i, upd, via, out) ==
  LET tok == IF out.threw THEN Throws ELSE TokenAfter(upd, out.err, out.data)
  IN IF tok = Throws
       THEN /\ reqs' = [reqs EXCEPT ![i] = [upd EXCEPT !.uncaught = TRUE]]
            /\ UNCHANGED accessToken
       ELSE /\ accessToken' = tok
            /\ reqs' = [reqs EXCEPT ![i] =
                 [upd EXCEPT !.calls =
                    Append(@, [via |-> via, err |-> out.err,
                               data |-> out.data, seen |-> tok])]]

\* ------------------------------------------------------------------------
\* Transport events
\* ------------------------------------------------------------------------

\* The 'response' event: the response head arrives with its status code.
Response(i, statusCode) ==
  /\ ~reqs[i].res /\ ~reqs[i].errored /\ ~reqs[i].aborted
  /\ reqs' = [reqs EXCEPT ![i] =
       [@ EXCEPT !.res = TRUE, !.statusCode = statusCode]]
  /\ UNCHANGED <<client, returned, accessToken, thrown>>

\* A res 'data' event: the next chunk of the text the service sends, pushed
\* to body.
ResData(i, chunk) ==
  /\ reqs[i].res /\ ~reqs[i].resEnded
  /\ ~reqs[i].errored /\ ~reqs[i].aborted
  /\ Len(reqs[i].body) < MaxChunks
  /\ reqs' = [reqs EXCEPT ![i] = [@ EXCEPT !.body = Append(@, chunk)]]
  /\ UNCHANGED <<client, returned, accessToken, thrown>>

\* The res 'end' event.  It is delivered at most once; it may follow an
\* 'error' of the request, when the connection fails while the body is read.
ResEnd(i) ==
  /\ reqs[i].res /\ ~reqs[i].resEnded /\ ~reqs[i].aborted
  /\ Handle(i, [reqs[i] EXCEPT !.resEnded = TRUE], "end",
            OnEnd(reqs[i].statusCode, reqs[i].body))
  /\ UNCHANGED <<client, returned, thrown>>

\* The req 'error' event of a transport failure.  It may follow the res
\* 'end' event, when the connection fails after the response was read.
ReqError(i, message) ==
  /\ ~reqs[i].errored /\ ~reqs[i].aborted
  /\ Handle(i, [reqs[i] EXCEPT !.errored = TRUE], "error",
            OnError(message))
  /\ UNCHANGED <<client, returned, thrown>>

\* The timeout set by req.setTimeout fires on a request that has not
\* completed: its handler calls req.abort().
Timeout(i) ==
  /\ ~reqs[i].resEnded /\ ~reqs[i].errored /\ ~reqs[i].aborted
  /\ reqs' = [reqs EXCEPT ![i] = [@ EXCEPT !.aborted = TRUE]]
  /\ UNCHANGED <<client, returned, accessToken, thrown>>

\* "Aborting a request triggers the 'error' event."
AbortError(i) ==
  /\ reqs[i].aborted /\ ~reqs[i].errored
  /\ Handle(i, [reqs[i] EXCEPT !.errored = TRUE], "error",
            OnError(AbortMessage))
  /\ UNCHANGED <<client, returned, thrown>>

\* ------------------------------------------------------------------------
\* Responses
\* ------------------------------------------------------------------------

TokenText == <<LB, TStr("access_token"), COLON, TStr("t1"), RB>>

\* The token response of another exchange.
TokenText2 == <<LB, TStr("access_token"), COLON, TStr("t2"), RB>>

NotFoundElement ==
  <<LB, TStr("message"), COLON, TStr("Not Found"), COMMA,
    TStr("code"), COLON, TNum(404), RB>>

SentinelElement ==
  <<LB, TStr("message"), COLON, TStr("Gone"), COMMA,
    TStr("code"), COLON, TNum(DEFAULT_ERROR_CODE), RB>>

ErrorsOpen == <<LB, TStr("errors"), COLON, LK>>

ErrorsClose == <<RK, RB>>

DataOpen == <<LB, TStr("data"), COLON>>

\* A response text is given as the chunks the transport delivers it in.
\* The status codes and the texts of the responses.
StatusCodes == { 100, 200, 302, 404, 500 }

Texts ==
  { <<DataOpen, TokenText \o <<RB>>>>,
    <<DataOpen, TokenText, <<RB>>>>,
    <<DataOpen, <<TNull, RB>>>>,
    <<DataOpen, <<TFalse, RB>>>>,
    <<DataOpen, <<TNum(0), RB>>>>,
    <<DataOpen, <<TStr(""), RB>>>>,
    <<TokenText>>,
    <<<<LB, RB>>>>,
    <<<<TNull>>>>,
    <<<<TNum(0)>>>>,
    <<ErrorsOpen, NotFoundElement \o ErrorsClose>>,
    <<ErrorsOpen,
      SentinelElement \o <<COMMA>> \o NotFoundElement \o ErrorsClose>>,
    <<ErrorsOpen, ErrorsClose>>,
    <<ErrorsOpen, <<TNull>> \o ErrorsClose>>,
    <<<<TJunk>>>> }

\* The chunks that may follow `body` in one of `texts`.
NextChunks(texts, body) ==
  { text[Len(body) + 1] :
      text \in { t \in texts : /\ Len(body) < Len(t)
                               /\ SubSeq(t, 1, Len(body)) = body } }

\* ------------------------------------------------------------------------
\* Specifications
\* ------------------------------------------------------------------------

\* The inputs of the model: the arguments of the facade calls and the
\* responses of the service.
AllInputs ==
  [options |-> ConstructorOptions,
   tokens |-> Tokens,
   scopes |-> Scopes,
   codes |-> Codes,
   redirectUrls |-> RedirectUrls,
   refreshTokens |-> RefreshTokens,
   userOptions |-> UserOptions,
   postOptions |-> PostOptions,
   statusCodes |-> StatusCodes,
   texts |-> Texts]

\* The inputs with which every facade call passes validation, and the
\* responses 200 and 404 with one of two tokens and with a service error.
ValidInputs ==
  [options |-> { o \in ConstructorOptions :
                   /\ o # Undefined
                   /\ Enforce(o, <<"clientId", "clientSecret">>) = Undefined
                   /\ ~HasOwn(o, "version") },
   tokens |-> Tokens,
   scopes |-> Scopes \ {Undefined},
   codes |-> Codes \ {Undefined},
   redirectUrls |-> RedirectUrls \ {Undefined},
   refreshTokens |-> RefreshTokens \ {Undefined},
   userOptions |-> { o \in UserOptions : Enforce(o, <<"userId">>) = Undefined },
   postOptions |-> { o \in PostOptions : Enforce(o, <<"userId">>) = Undefined },
   statusCodes |-> { 200, 404 },
   texts |-> { <<TokenText>>,
               <<TokenText2>>,
               <<ErrorsOpen, NotFoundElement \o ErrorsClose>> }]

\* The inputs of a program that creates posts: every post, one response.
PostInputs ==
  [ValidInputs EXCEPT !.postOptions = Posts,
                      !.statusCodes = { 200 },
                      !.texts = { <<TokenText>> }]

\* A step of a program that issues at most `limit` requests, with the
\* arguments and responses `in`.
Step(limit, in) ==
  \/ \E options \in in.options : Construct(options)
  \/ \E token \in in.tokens : SetAccessToken(token)
  \/ \E requestedScope \in in.scopes :
       GetAuthorizationUrl(Str("s1"), Str("http://cb"), requestedScope)
  \/ \E code \in in.codes, redirectUrl \in in.redirectUrls :
       Len(reqs) < limit /\ ExchangeAuthorizationCode(code, redirectUrl)
  \/ \E refreshToken \in in.refreshTokens :
       Len(reqs) < limit /\ ExchangeRefreshToken(refreshToken)
  \/ Len(reqs) < limit /\ GetUser
  \/ \E options \in in.userOptions :
       Len(reqs) < limit /\ GetPostForUser(options)
  \/ \E options \in in.postOptions :
       Len(reqs) < limit /\ CreatePost(options)
  \/ \E i \in 1..limit, statusCode \in in.statusCodes :
       i <= Len(reqs) /\ Response(i, statusCode)
  \/ \E i \in 1..limit :
       /\ i <= Len(reqs)
       /\ \E chunk \in NextChunks(in.texts, reqs[i].body) : ResData(i, chunk)
  \/ \E i \in 1..limit : i <= Len(reqs) /\ ResEnd(i)
  \/ \E i \in 1..limit, message \in TransportMessages :
       i <= Len(reqs) /\ ReqError(i, message)
  \/ \E i \in 1..limit : i <= Len(reqs) /\ Timeout(i)
  \/ \E i \in 1..limit : i <= Len(reqs) /\ AbortError(i)

\* The life of one request: every argument, status code and response text.
Next == Step(1, AllInputs)

Spec == Init /\ [][Next]_vars

\* The inputs with which every facade call passes validation, and every
\* status code and response text.
LiveInputs ==
  [ValidInputs EXCEPT !.statusCodes = StatusCodes, !.texts = Texts]

\* The transport delivers the next event of request i, which has seen
\* neither the end of its response nor an error.
Deliver(i) ==
  /\ i <= Len(reqs)
  /\ ~reqs[i].resEnded /\ ~reqs[i].errored
  /\ \/ \E message \in TransportMessages : ReqError(i, message)
     \/ AbortError(i)
     \/ Timeout(i)
     \/ \E statusCode \in LiveInputs.statusCodes : Response(i, statusCode)
     \/ \E chunk \in NextChunks(LiveInputs.texts, reqs[i].body) :
          ResData(i, chunk)
     \/ ResEnd(i)

\* The life of one request that passes validation.
NextLive == Step(1, LiveInputs)

\* The transport eventually delivers the end of the response or an error,
\* of itself or after the timeout's abort.
SpecLive == Init /\ [][NextLive]_vars /\ WF_vars(Deliver(1))

\* Requests in flight together.
NextConcurrent == Step(MaxReq, ValidInputs)

SpecConcurrent == Init /\ [][NextConcurrent]_vars

\* Posts created, one request.
NextPosts == Step(1, PostInputs)

SpecPosts == Init /\ [][NextPosts]_vars

\* ------------------------------------------------------------------------
\* Properties
\* ------------------------------------------------------------------------

\* The parsed body of request r's response.
ParsedBody(r) == JSONParse(Join(r.body))

\* The status family of request r's response.
StatusType(r) == r.statusCode \div 100

\* The latest call of the caller's callback on request r.
LastCall(r) == r.calls[Len(r.calls)]

\* A step in which request i's handler calls the caller's callback.
CallsBack(i) ==
  /\ i <= Len(reqs)
  /\ Len(reqs'[i].calls) = Len(reqs[i].calls) + 1

\* A step in which a token exchange resolves successfully.
ExchangeSucceeds(i) ==
  /\ CallsBack(i)
  /\ reqs[i].wrap = "token"
  /\ LastCall(reqs'[i]).err = Null

\* A step in which a token exchange resolves with an error.
ExchangeFails(i) ==
  /\ CallsBack(i)
  /\ reqs[i].wrap = "token"
  /\ LastCall(reqs'[i]).err.t = "error"

\* C1: whenever a token exchange resolves successfully, the stored access
\* token seen at the moment the caller's callback is called is the
\* access_token of the response, and from then on the stored token changes
\* only in a setAccessToken call or in a successful resolution of an exchange.
C1_TokenStoredBeforeCallback ==
  [][/\ \A i \in 1..Len(reqs') : \A k \in 1..Len(reqs'[i].calls) :
          LET r == reqs'[i]
              c == r.calls[k]
          IN r.wrap = "token" /\ c.err = Null =>
               /\ c.via = "end"
               /\ c.seen = Get(Payload(ParsedBody(r).val), "access_token")
     /\ constructed /\ accessToken' # accessToken =>
          \/ \E token \in Tokens : SetAccessToken(token)
          \/ \E i \in 1..Len(reqs) :
               /\ ExchangeSucceeds(i)
               /\ accessToken' = Get(LastCall(reqs'[i]).data, "access_token")
    ]_vars

\* C1 witness: an exchange answered 200 {"access_token":"t1"} has called the
\* caller's callback with the stored token already "t1", and it still is.
C1_Witness ==
  \E i \in 1..Len(reqs) : \E k \in 1..Len(reqs[i].calls) :
    /\ reqs[i].wrap = "token"
    /\ reqs[i].calls[k].err = Null
    /\ reqs[i].calls[k].data = Obj(<<Prop("access_token", Str("t1"))>>)
    /\ reqs[i].calls[k].seen = Str("t1")
    /\ accessToken = Str("t1")

\* C2: a step in which a token exchange resolves with an error, of whatever
\* kind, leaves the stored access token as it was.
C2_FailedExchangeKeepsToken ==
  [][\A i \in 1..Len(reqs) : ExchangeFails(i) => accessToken' = accessToken]_vars

\* C2 witness: an exchange issued after setAccessToken("s1") has resolved with
\* an error and the stored token is still "s1".
C2_Witness ==
  \E i \in 1..Len(reqs) :
    /\ reqs[i].wrap = "token"
    /\ Len(reqs[i].calls) = 1
    /\ reqs[i].calls[1].err.t = "error"
    /\ reqs[i].calls[1].seen = Str("s1")
    /\ accessToken = Str("s1")

\* C3: the caller's callback is called at most once for every request,
\* whatever the order of the transport's events.
C3_SingleResolution ==
  \A i \in 1..Len(reqs) : Len(reqs[i].calls) <= 1

\* The errors _enforce throws.
ValidationErrors ==
  { IDevJSError(Str("Parameters for this call are undefined"),
                Num(DEFAULT_ERROR_CODE)) }
  \cup { IDevJSError(Cat(<<"Missing required parameter \"", key, "\"">>),
                     Num(DEFAULT_ERROR_CODE)) :
           key \in {"clientId", "clientSecret", "userId"} }

\* A call that throws a validation error, issues no request and leaves the
\* stored token as it was.
FailsFast ==
  /\ thrown' \in ValidationErrors
  /\ reqs' = reqs
  /\ accessToken' = accessToken

\* C4: getPostForUser and createPost called without userId or with undefined
\* options, and the constructor called without clientId or clientSecret,
\* throw a validation error; no request is issued and the stored access token
\* is unchanged.
C4_RequiredFieldsFailFast ==
  [][/\ \A options \in UserOptions :
          Falsy(options) \/ Falsy(Get(options, "userId")) =>
            (GetPostForUser(options) => FailsFast)
     /\ \A options \in PostOptions :
          Falsy(options) \/ Falsy(Get(options, "userId")) =>
            (CreatePost(options) => FailsFast)
     /\ \A options \in ConstructorOptions \ {Undefined} :
          Falsy(Get(options, "clientId"))
            \/ Falsy(Get(options, "clientSecret")) =>
              (Construct(options) => FailsFast /\ ~constructed')
     /\ Construct(Undefined) => FailsFast /\ ~constructed'
    ]_vars

\* C4 witness: on a constructed client a call without userId has thrown, and
\* no request exists.
C4_Witness ==
  /\ constructed
  /\ thrown = IDevJSError(Cat(<<"Missing required parameter \"", "userId",
                                "\"">>), Num(DEFAULT_ERROR_CODE))
  /\ reqs = <<>>

\* C5: exchangeAuthorizationCode called without code or without redirectUrl,
\* and exchangeRefreshToken called without refreshToken, throw a validation
\* error and issue no request.
C5_ExchangeValidatesParameters ==
  [][/\ \A code \in Codes, redirectUrl \in RedirectUrls :
          Falsy(code) \/ Falsy(redirectUrl) =>
            (ExchangeAuthorizationCode(code, redirectUrl) =>
               thrown'.t = "error" /\ reqs' = reqs)
     /\ \A refreshToken \in RefreshTokens :
          Falsy(refreshToken) =>
            (ExchangeRefreshToken(refreshToken) =>
               thrown'.t = "error" /\ reqs' = reqs)
    ]_vars

\* The calls of the caller's callback that request r's 'end' handler made.
EndCalls(r) == SelectSeq(r.calls, LAMBDA c : c.via = "end")

\* C6: a 2xx response whose body parses to an object resolves to the value
\* of the object's `data` field if it has one, whatever that value, and to
\* the whole object if it has none, with no error.
C6_DataFieldResolved ==
  \A i \in 1..Len(reqs) :
    LET r == reqs[i]
        payload == ParsedBody(r).val
    IN r.resEnded /\ StatusType(r) = 2 /\ ParsedBody(r).ok
         /\ payload.t = "object" =>
           /\ Len(EndCalls(r)) = 1
           /\ EndCalls(r)[1].err = Null
           /\ EndCalls(r)[1].data =
                IF HasOwn(payload, "data") THEN Get(payload, "data")
                ELSE payload

\* The first element of the errors array of request r's parsed body.
FirstError(r) == First(Get(ParsedBody(r).val, "errors"))

\* Request r's response is a service error: status family 4 or 5 and a body
\* that parses.
ServiceError(r) == r.res /\ ParsedBody(r).ok /\ StatusType(r) \in {4, 5}

\* C7: a 4xx or 5xx response whose parsed body has a non-empty errors array
\* of error objects resolves to an error with exactly the message and the
\* code of the first element, and no success value.
C7_FirstErrorElement ==
  \A i \in 1..Len(reqs) :
    LET r == reqs[i]
    IN r.resEnded /\ ServiceError(r) /\ FirstError(r).t = "object" =>
         /\ Len(EndCalls(r)) = 1
         /\ EndCalls(r)[1].err = IDevJSError(Get(FirstError(r), "message"),
                                             Get(FirstError(r), "code"))
         /\ EndCalls(r)[1].data = Null

\* C7 witness: a 500 whose errors array holds two elements has resolved to
\* the first element's message and code.
C7_Witness ==
  \E i \in 1..Len(reqs) :
    /\ reqs[i].statusCode = 500
    /\ reqs[i].resEnded
    /\ ParsedBody(reqs[i]).ok
    /\ Get(ParsedBody(reqs[i]).val, "errors").t = "array"
    /\ Len(Get(ParsedBody(reqs[i]).val, "errors").e) = 2
    /\ Len(reqs[i].calls) = 1
    /\ reqs[i].calls[1].err = IDevJSError(Str("Gone"), Num(DEFAULT_ERROR_CODE))

\* The error of a body that is no JSON text.
ParseFailure ==
  IDevJSError(Str("Failed to parse response"), Num(DEFAULT_ERROR_CODE))

\* C8: whatever the status code, a response whose body is no JSON text
\* resolves to the error "Failed to parse response" with code -1 and nothing
\* else comes of its 'end' handler.
C8_ParseFailureFirst ==
  \A i \in 1..Len(reqs) :
    LET r == reqs[i]
    IN r.resEnded /\ ~ParsedBody(r).ok =>
         /\ ~r.uncaught
         /\ Len(EndCalls(r)) = 1
         /\ EndCalls(r)[1].err = ParseFailure
         /\ EndCalls(r)[1].data = Null

\* C8 witness: a 302 with an unparsable body has resolved to the parse error.
C8_Witness ==
  \E i \in 1..Len(reqs) :
    /\ reqs[i].statusCode = 302
    /\ reqs[i].body = <<<<TJunk>>>>
    /\ reqs[i].calls = <<[via |-> "end", err |-> ParseFailure, data |-> Null,
                          seen |-> accessToken]>>

\* C9: a request not completed when its timeout fires is aborted, and the
\* abort comes through the 'error' handler: the request resolves once, to an
\* error with code -1 and no success value.
C9_TimeoutAborts ==
  \A i \in 1..Len(reqs) :
    LET r == reqs[i]
    IN r.aborted =>
         IF r.errored
           THEN /\ Len(r.calls) = 1
                /\ r.calls[1].via = "error"
                /\ r.calls[1].err =
                     IDevJSError(AbortMessage, Num(DEFAULT_ERROR_CODE))
                /\ r.calls[1].data = Null
           ELSE r.calls = <<>> /\ ~r.resEnded

\* C9 witness: a request timed out while its response body was being
\* received, and has resolved to the abort's error.
C9_Witness ==
  \E i \in 1..Len(reqs) :
    /\ reqs[i].res /\ reqs[i].body # <<>> /\ ~reqs[i].resEnded
    /\ reqs[i].aborted
    /\ Len(reqs[i].calls) = 1
    /\ reqs[i].calls[1].err.code = Num(DEFAULT_ERROR_CODE)

\* The errors delivered to the caller: through the callback, or thrown.
\* C10, as stated: an error with code -1 was never provided by the service.
C10_SentinelNeverFromService ==
  \A i \in 1..Len(reqs) : \A k \in 1..Len(reqs[i].calls) :
    LET c == reqs[i].calls[k]
    IN c.err.t = "error" /\ c.err.code = Num(DEFAULT_ERROR_CODE) =>
         ~(c.via = "end" /\ ServiceError(reqs[i]))

\* C10, amended: an error the service provided carries the message and code
\* of the first errors element verbatim, every other error carries code -1;
\* so an error with code -1 is local, or the service itself sent -1.
C10_SentinelOrVerbatim ==
  /\ thrown.t = "error" => thrown.code = Num(DEFAULT_ERROR_CODE)
  /\ \A i \in 1..Len(reqs) : \A k \in 1..Len(reqs[i].calls) :
       LET c == reqs[i].calls[k]
           r == reqs[i]
       IN c.err.t = "error" =>
            IF c.via = "end" /\ ServiceError(r)
              THEN /\ c.err.code = Get(FirstError(r), "code")
                   /\ c.err.message = Get(FirstError(r), "message")
              ELSE c.err.code = Num(DEFAULT_ERROR_CODE)

\* C10 witness: a 404 whose first errors element carries code -1 has
\* resolved to an error with code -1.
C10_Witness ==
  \E i \in 1..Len(reqs) : \E k \in 1..Len(reqs[i].calls) :
    /\ reqs[i].calls[k].via = "end"
    /\ reqs[i].statusCode = 404
    /\ ParsedBody(reqs[i]).ok
    /\ reqs[i].calls[k].err = IDevJSError(Str("Gone"), Num(DEFAULT_ERROR_CODE))

\* The values the stored token may hold on a constructed client: the initial
\* empty string, a value passed to setAccessToken, or what a successfully
\* resolved exchange read from its response's access_token.
WholeTokens ==
  {Str("")} \cup Tokens
    \cup { reqs[i].calls[k].seen :
             <<i, k>> \in { p \in (1..Len(reqs)) \X (1..MaxReq) :
                              /\ p[2] <= Len(reqs[p[1]].calls)
                              /\ reqs[p[1]].wrap = "token"
                              /\ reqs[p[1]].calls[p[2]].err = Null } }

\* C11: with token exchanges in flight together, a step in which one of them
\* resolves successfully leaves the stored token equal to the access_token of
\* that response, whichever exchange was issued first; a step in which one
\* fails leaves the stored token as it was; and in every state the stored
\* token is one whole value: the initial one, a setAccessToken value, or the
\* access_token of one response.
C11_LastSuccessfulWriteWins ==
  [][/\ \A i \in 1..Len(reqs) :
          /\ ExchangeSucceeds(i) =>
               accessToken' = Get(Payload(ParsedBody(reqs'[i]).val),
                                  "access_token")
          /\ ExchangeFails(i) => accessToken' = accessToken
     /\ constructed => accessToken \in WholeTokens
     /\ constructed' => accessToken' \in WholeTokens'
    ]_vars

\* C11 witness: two exchanges were in flight together (the second was issued
\* before any token was stored); the second was answered "t2", the first
\* "t1" after it, and the stored token is "t1".
C11_Witness ==
  /\ Len(reqs) = 2
  /\ reqs[1].wrap = "token" /\ reqs[2].wrap = "token"
  /\ reqs[2].authorization = Cat(<<"Bearer ", "">>)
  /\ Len(reqs[1].calls) = 1 /\ Len(reqs[2].calls) = 1
  /\ reqs[1].calls[1].data = Obj(<<Prop("access_token", Str("t1"))>>)
  /\ reqs[2].calls[1].data = Obj(<<Prop("access_token", Str("t2"))>>)
  /\ reqs[2].calls[1].seen = Str("t2")
  /\ accessToken = Str("t1")

\* The properties of object o, as a set.
PropSet(o) == { o.f[i] : i \in 1..Len(o.f) }

\* A step that issues a POST request with the caller's own callback.
IssuesPost ==
  /\ Len(reqs') = Len(reqs) + 1
  /\ reqs'[Len(reqs')].method = "POST"
  /\ reqs'[Len(reqs')].wrap = "plain"

\* C12: for every options object with a userId, the body createPost writes
\* is a JSON text that parses to an object holding exactly the fields of the
\* options other than userId whose value is not undefined, each under its
\* own key with its own value, and no key twice.
C12_BodyIsSuppliedFields ==
  [][IssuesPost =>
       \A options \in Posts :
         CreatePost(options) =>
           LET written == reqs'[Len(reqs')].written
               parsed == JSONParse(written.json)
           IN /\ reqs'[Len(reqs')].contentType = Str("application/json")
              /\ parsed.ok
              /\ parsed.val.t = "object"
              /\ Cardinality(PropSet(parsed.val)) = Len(parsed.val.f)
              /\ PropSet(parsed.val) =
                   { p \in PropSet(options) :
                       p.k # "userId" /\ p.v # Undefined }
    ]_vars

\* C12 witness: createPost({userId, title, tags}) has written
\* {"title":"title","tags":["a","b"]}.
C12_Witness ==
  \E i \in 1..Len(reqs) :
    /\ reqs[i].method = "POST"
    /\ reqs[i].wrap = "plain"
    /\ reqs[i].written.t = "string"
    /\ reqs[i].written.json =
         <<LB, TStr("title"), COLON, TStr("title"), COMMA,
           TStr("tags"), COLON, LK, TStr("a"), COMMA, TStr("b"), RK, RB>>

\* C13: every request issued eventually calls the caller's callback, once
\* the transport has delivered the end of the response or an error.
C13_EventualResolution ==
  (Len(reqs) >= 1) ~> (Len(reqs) >= 1 /\ Len(reqs[1].calls) > 0)

\* C14: a 4xx or 5xx response whose parsed body has no errors array, or an
\* empty one, resolves to an error delivered to the caller, with no success
\* value.
C14_FailsClosed ==
  \A i \in 1..Len(reqs) :
    LET r == reqs[i]
        errors == Get(ParsedBody(r).val, "errors")
    IN r.resEnded /\ ServiceError(r)
         /\ (errors.t # "array" \/ errors = Arr(<<>>)) =>
           /\ Len(EndCalls(r)) = 1
           /\ EndCalls(r)[1].err.t = "error"
           /\ EndCalls(r)[1].data = Null

\* A facade call that reaches _makeRequest if it passes validation.
IssuingCall ==
  \/ \E code \in Codes, redirectUrl \in RedirectUrls :
       ExchangeAuthorizationCode(code, redirectUrl)
  \/ \E refreshToken \in RefreshTokens : ExchangeRefreshToken(refreshToken)
  \/ GetUser
  \/ \E options \in UserOptions : GetPostForUser(options)
  \/ \E options \in PostOptions : CreatePost(options)

\* What makes a request the request it is: what was sent.
Sent(r) ==
  <<r.host, r.port, r.method, r.path, r.contentType, r.authorization,
    r.accept, r.acceptCharset, r.written, r.wrap>>

\* C15: a facade call that passes validation issues exactly one request,
\* which it ends; no other step issues a request, whatever the outcome of
\* the requests before it, or changes what a request sent; and every request
\* is ended in every state.
C15_OneRequestPerCall ==
  [][/\ IF IssuingCall /\ thrown' = Undefined
          THEN /\ Len(reqs') = Len(reqs) + 1
               /\ reqs'[Len(reqs')].calls = <<>>
          ELSE Len(reqs') = Len(reqs)
     /\ \A i \in 1..Len(reqs) : Sent(reqs'[i]) = Sent(reqs[i])
     /\ \A i \in 1..Len(reqs') : reqs'[i].ended
    ]_vars

\* C15 witness: the one request of a call has resolved with the error of the
\* timeout's abort, and it is still the only request.
C15_Witness ==
  /\ Len(reqs) = 1
  /\ reqs[1].ended /\ reqs[1].aborted /\ reqs[1].errored
  /\ Len(reqs[1].calls) = 1
  /\ reqs[1].calls[1].err = IDevJSError(AbortMessage, Num(DEFAULT_ERROR_CODE))

\* The error of a status family that is neither 2, 4 nor 5.
UnexpectedResponse ==
  IDevJSError(Str("Unexpected response"), Num(DEFAULT_ERROR_CODE))

\* C18: a response with a parsable body whose status family is neither 2, 4
\* nor 5 resolves to the error "Unexpected response" with code -1 and no
\* success value, whatever the body holds.
C18_UnexpectedFamily ==
  \A i \in 1..Len(reqs) :
    LET r == reqs[i]
    IN r.resEnded /\ ParsedBody(r).ok /\ StatusType(r) \notin {2, 4, 5} =>
         /\ ~r.uncaught
         /\ Len(EndCalls(r)) = 1
         /\ EndCalls(r)[1].err = UnexpectedResponse
         /\ EndCalls(r)[1].data = Null

\* C18 witness: a 302 whose body holds a data field has resolved to the
\* error "Unexpected response".
C18_Witness ==
  \E i \in 1..Len(reqs) :
    /\ reqs[i].statusCode = 302
    /\ reqs[i].resEnded
    /\ ParsedBody(reqs[i]).ok
    /\ HasOwn(ParsedBody(reqs[i]).val, "data")
    /\ Len(reqs[i].calls) = 1
    /\ reqs[i].calls[1].err = UnexpectedResponse
    /\ reqs[i].calls[1].data = Null

\* C19: on a constructed client the stored access token is a string in
\* every state.
C19_TokenIsString ==
  constructed => accessToken.t = "string"

\* A step of getUser, getPostForUser, createPost or getAuthorizationUrl, or
\* of a request one of them issued.
PlainStep ==
  \/ GetUser
  \/ \E options \in UserOptions : GetPostForUser(options)
  \/ \E options \in PostOptions : CreatePost(options)
  \/ \E requestedScope \in Scopes :
       GetAuthorizationUrl(Str("s1"), Str("http://cb"), requestedScope)
  \/ \E i \in 1..Len(reqs) : reqs[i].wrap = "plain" /\ reqs'[i] # reqs[i]

\* C16: with requests in flight together, the stored token changes only in
\* a setAccessToken call, to exactly its argument, or in the successful
\* resolution of a token exchange; no step of getUser, getPostForUser,
\* createPost, getAuthorizationUrl or their requests changes it; and the
\* client id, client secret and version of a constructed client never change.
C16_TokenFrame ==
  [][/\ constructed /\ accessToken' # accessToken =>
          \/ \E token \in Tokens : SetAccessToken(token)
          \/ \E i \in 1..Len(reqs) : ExchangeSucceeds(i)
     /\ \A token \in Tokens : SetAccessToken(token) => accessToken' = token
     /\ accessToken' = accessToken \/ ~PlainStep
     /\ constructed =>
          /\ clientId' = clientId
          /\ clientSecret' = clientSecret
          /\ version' = version
    ]_vars

\* C16 witness: after setAccessToken("s1"), a getUser answered 200 with a
\* body holding an access_token has resolved successfully while a token
\* exchange failed, and the stored token is still "s1".
C16_Witness ==
  /\ Len(reqs) = 2
  /\ reqs[1].wrap = "plain" /\ reqs[2].wrap = "token"
  /\ Len(reqs[1].calls) = 1 /\ Len(reqs[2].calls) = 1
  /\ reqs[1].calls[1].err = Null
  /\ reqs[1].calls[1].data = Obj(<<Prop("access_token", Str("t1"))>>)
  /\ reqs[2].calls[1].err.t = "error"
  /\ accessToken = Str("s1")

\* The Authorization header of a request issued with stored token `token`.
Bearer(token) == Cat(<<"Bearer ">> \o ToStr(token))

\* C17: a request, to the token endpoint or any other, is issued with the
\* header Authorization: Bearer <t>, t the stored token of that moment, with
\* Accept and Accept-Charset beside it; no later step, a setAccessToken or
\* an exchange resolving among them, changes the headers of a request
\* already issued.
C17_BearerAtIssue ==
  [][/\ Len(reqs') = Len(reqs) + 1 =>
          LET r == reqs'[Len(reqs')]
          IN /\ r.authorization = Bearer(accessToken)
             /\ r.accept = Str("application/json")
             /\ r.acceptCharset = Str("utf-8")
     /\ \A i \in 1..Len(reqs) :
          /\ reqs'[i].authorization = reqs[i].authorization
          /\ reqs'[i].contentType = reqs[i].contentType
    ]_vars

\* C17 witness: an exchange issued with no token stored has resolved to
\* "t1" and still carries "Bearer "; the request issued after it carries
\* "Bearer t1".
C17_Witness ==
  /\ Len(reqs) = 2
  /\ reqs[1].wrap = "token"
  /\ reqs[1].authorization = Bearer(Str(""))
  /\ Len(reqs[1].calls) = 1
  /\ reqs[1].calls[1].seen = Str("t1")
  /\ reqs[2].authorization = Bearer(Str("t1"))
  /\ accessToken = Str("t1")

====
